---- MODULE Spec2Model ----
(***************************************************************************)
(* PipelineService (store package, src/backend/server/debug.go:17-289):    *)
(* transactional Create / Find / FindList / Patch over the pipeline table  *)
(* with a write-through cache keyed by pipeline ID.                        *)
(*                                                                         *)
(* Every call runs in one of the concurrent callers Procs.  A step of the  *)
(* model is one access to shared state (a SQL statement, a commit, one     *)
(* cache call) together with the local code around it.  The relational     *)
(* store runs each statement against the committed rows (read committed);  *)
(* an UPDATE holds the lock of its row until its transaction ends.         *)
(*                                                                         *)
(* ProjectMemberRaw.ToProjectMember (package api,                          *)
(* src/frontend/src/views/SqlEditor/EditorPanel/SaveSheetModal.vue:98-117) *)
(* is a pure conversion; ConvSpec applies it to every raw record of a      *)
(* bounded set.                                                            *)
(***************************************************************************)
EXTENDS Integers, Sequences, FiniteSets

\* ---------------------------------------------------------------- bounds
MaxID == 2        \* values the id sequence of the pipeline table can hand out
MaxTs == 3        \* last tick of the store's clock: it starts at 1 and ticks at every write statement

Procs == {"a", "b"}  \* the concurrent callers of the service
IDs   == 1..MaxID

\* ------------------------------------------------------------ data model
Creators   == {1}    \* create.CreatorID
Updaters   == {2}    \* patch.UpdaterID
Names      == {"release-42"}
Statuses   == {"OPEN", "DONE"}   \* api.PipelineStatus; no statement treats CANCELED unlike DONE

NilID     == 0       \* find.ID == nil
NilStatus == "nil"   \* find.Status == nil, patch.Status == nil

\* api.PipelineRaw, the columns every statement returns.
PipelineRaw(id, creator, createdTs, updater, updatedTs, name, status) ==
  [ID |-> id, CreatorID |-> creator, CreatedTs |-> createdTs,
   UpdaterID |-> updater, UpdatedTs |-> updatedTs, Name |-> name, Status |-> status]

\* nil *api.PipelineRaw; also an absent row and an absent cache entry.
NoRow == PipelineRaw(0, 0, 0, 0, 0, "", "")

\* error values: nil, a driver error, a cache error, and common.Error with its code
Nil           == [code |-> "nil", n |-> 0]
StoreErr      == [code |-> "Store", n |-> 0]
CacheErr      == [code |-> "Cache", n |-> 0]
NotFound(id)  == [code |-> "NotFound", n |-> id]
Conflict(cnt) == [code |-> "Conflict", n |-> cnt]

\* FormatError passes an error on to the caller, its kind unchanged.
FormatError(e) == e

NoReq == [ID |-> NilID]
PipelineCreate == [CreatorID : Creators, Name : Names]
PipelineFind   == [ID : {NilID} \cup IDs, Status : {NilStatus, "OPEN"}]
PipelinePatch  == [ID : IDs, UpdaterID : Updaters, Status : {NilStatus} \cup Statuses]

\* --------------------------------------------------------- project member
\* api.ProjectMemberRaw, the store model of a project member
ProjectRoleProvider == {"BYTEBASE", "GITLAB_SELF_HOST"}

ProjectMemberRaw ==
  [ID : {1, 2}, CreatorID : {1}, CreatedTs : {1}, UpdaterID : {1, 2}, UpdatedTs : {1, 2},
   ProjectID : {1, 2}, Role : {"OWNER", "DEVELOPER"}, PrincipalID : {1, 2},
   RoleProvider : ProjectRoleProvider, Payload : {"", "{}"}]

\* no raw record at hand, no result yet
NoMemberRaw == [ID |-> 0]
NoMember    == [ID |-> 0]

\* ToProjectMember: the api.ProjectMember composed from raw; the relations
\* Creator, Updater and Principal are left nil.
ToProjectMember(r) ==
  [ID |-> r.ID,
   CreatorID |-> r.CreatorID, Creator |-> "nil", CreatedTs |-> r.CreatedTs,
   UpdaterID |-> r.UpdaterID, Updater |-> "nil", UpdatedTs |-> r.UpdatedTs,
   ProjectID |-> r.PrincipalID,
   Role |-> r.Role, PrincipalID |-> r.PrincipalID, Principal |-> "nil",
   RoleProvider |-> r.RoleProvider, Payload |-> r.Payload]

\* ----------------------------------------------------------- SQL statements
\* (variant: the INSERT takes the status of a finished pipeline)
InsertRow_Done(create, id, ts) ==
  PipelineRaw(id, create.CreatorID, ts, create.CreatorID, ts, create.Name, "DONE")

\* INSERT INTO pipeline (...) VALUES ($1, $2, $3, 'OPEN') RETURNING ...
\* id comes from the table's sequence, ts from the store's clock.
InsertRow(create, id, ts) ==
  PipelineRaw(id, create.CreatorID, ts, create.CreatorID, ts, create.Name, "OPEN")

\* The statement does not set updated_ts: the store assigns the timestamps.
StampUpdate(row, ts) == [row EXCEPT !.UpdatedTs = ts]

\* (variant: status is in the SET list also when the request carries none)
UpdateRow_StatusAlways(row, patch, ts) ==
  StampUpdate([row EXCEPT !.UpdaterID = patch.UpdaterID,
                          !.Status    = patch.Status], ts)

\* UPDATE pipeline SET updater_id = $1 [, status = $2] WHERE id = $n RETURNING ...
UpdateRow(row, patch, ts) ==
  StampUpdate([row EXCEPT !.UpdaterID = patch.UpdaterID,
                          !.Status    = IF patch.Status # NilStatus THEN patch.Status ELSE @],
              ts)

\* (variant: the status condition is not appended)
Where_NoStatus(row, find) == find.ID # NilID => row.ID = find.ID

\* WHERE 1 = 1 [AND id = $1] [AND status = $2]
Where(row, find) ==
  /\ (find.ID # NilID => row.ID = find.ID)
  /\ (find.Status # NilStatus => row.Status = find.Status)

\* the rows of table t the SELECT of findPipelineList matches
Matching(t, find) == {t[i] : i \in {j \in IDs : t[j] # NoRow /\ Where(t[j], find)}}

\* The lists that hold the rows of S once each, in any order.
RECURSIVE Orders(_)
Orders(S) ==
  IF S = {} THEN {<<>>}
  ELSE UNION {{<<r>> \o l : l \in Orders(S \ {r})} : r \in S}

\* findPipelineList: the lists the SELECT may return.  The statement has no
\* ORDER BY and the rows are appended as they arrive: the store decides their
\* order, so every order of the matching rows is a possible result.
findPipelineList(t, find) == Orders(Matching(t, find))

\* (variant: FindPipelineList answers from the cache)
ListReads_Cache(st, ch) == ch

\* what the query of FindPipelineList runs on: tx.PTx, a transaction of the
\* store (st), never the cache (ch)
ListReads(st, ch) == st

\* (variant: the deferred Rollback is missing)
Rollback_Missing(t) == t

\* defer tx.PTx.Rollback(): rolls an open transaction back, no-op after Commit
Rollback(t) == IF t = "open" THEN "rolledback" ELSE t


\* ------------------------------------------------------ decisions of the code
\* (variant: FindPipeline never probes the cache)
ProbesCache_Never(find) == FALSE

\* FindPipeline probes the cache only for a request that carries an ID.
ProbesCache(find) == find.ID # NilID

\* (variant: the Conflict check compares with 2 instead of 1)
FindResult_Over2(l) ==
  IF Len(l) = 0 THEN [ret |-> NoRow, err |-> Nil, upsert |-> FALSE]
  ELSE IF Len(l) > 2 THEN [ret |-> NoRow, err |-> Conflict(Len(l)), upsert |-> FALSE]
  ELSE [ret |-> l[1], err |-> Nil, upsert |-> TRUE]

\* FindPipeline after findPipelineList: (nil, nil) for no row, a Conflict
\* error carrying the count for more than one, else the row, which is then
\* written to the cache.
FindResult(l) ==
  IF Len(l) = 0 THEN [ret |-> NoRow, err |-> Nil, upsert |-> FALSE]
  ELSE IF Len(l) > 1 THEN [ret |-> NoRow, err |-> Conflict(Len(l)), upsert |-> FALSE]
  ELSE [ret |-> l[1], err |-> Nil, upsert |-> TRUE]

\* (variant: patchPipeline falls through without an error)
PatchNoRow_Nil(patch) == Nil

\* patchPipeline when row.Next() is false: the UPDATE returned no row, or
\* reading its result failed.
PatchNoRow(patch) == NotFound(patch.ID)

\* (variant: every iteration of the range loop writes the first element)
RangeElem_First(l, i) == l[1]

\* for _, pipeline := range list: the element of iteration i, which
\* FindPipelineList writes to the cache under its ID
RangeElem(l, i) == l[i]

\* (variant: the cached entity lacks the timestamps the store assigned)
CreateCacheEntry_NoTs(pipeline) == [pipeline EXCEPT !.CreatedTs = 0, !.UpdatedTs = 0]

\* the entity CreatePipeline writes to the cache and returns after its commit
CreateCacheEntry(pipeline) == pipeline

\* (variant: the entry written is a later version than the committed row)
PatchCacheEntry_Ahead(pipelineRaw) == [pipelineRaw EXCEPT !.UpdatedTs = @ + 1]

\* the entity PatchPipeline writes to the cache and returns after its commit
PatchCacheEntry(pipelineRaw) == pipelineRaw

\* ------------------------------------------------------------------ state
VARIABLES
  store,    \* committed rows of table pipeline, by id (NoRow: no such row)
  nextID,   \* next value of the id sequence
  clock,    \* the store's clock, ticking at every write statement
  cache,    \* s.cache, namespace api.PipelineCache, by id (NoRow: no entry)
  pc,       \* per caller: position in its running call, "idle" when it has none
  req,      \* per caller: the argument of the call (create / find / patch)
  tx,       \* per caller: its transaction: none, open, committed, rolledback
  row,      \* per caller: the row its statement returned (pipeline, pipelineRaw)
  list,     \* per caller: result of findPipelineList; in a Patch, the row its UPDATE matched, as it was
  idx,      \* per caller: position of the range loop of FindPipelineList
  floor,    \* history, per Find: newest UpdatedTs a Patch of its ID had returned when it was invoked
  acked,    \* history, per id: newest UpdatedTs a successful Patch has returned
  last,     \* history: the call that returned in the previous step, with its results
  raw,      \* the receiver of ToProjectMember
  member    \* the result of ToProjectMember, NoMember before the call

frame == <<pc, req, tx, row, list, idx, floor>>
vars == <<store, nextID, clock, cache, pc, req, tx, row, list, idx, floor, acked, last,
          raw, member>>

dbVars == <<store, nextID, clock>>
pmVars == <<raw, member>>

\* no call returned in the previous step
NoLast == [p |-> "", op |-> "", inv |-> FALSE, req |-> NoReq, list |-> <<>>, floor |-> 0,
           tx |-> "none", rets |-> <<>>, ret |-> NoRow, err |-> Nil, after |-> ""]

\* The service is constructed over a table that is empty or holds a pipeline
\* an earlier run created; the cache starts empty.
Init ==
  /\ nextID \in {1, 2}
  /\ clock  = 1
  /\ store  = [i \in IDs |-> IF i < nextID
                             THEN InsertRow([CreatorID |-> 1, Name |-> "release-42"], i, 1)
                             ELSE NoRow]
  /\ cache  = [i \in IDs |-> NoRow]
  /\ pc     = [p \in Procs |-> "idle"]
  /\ req    = [p \in Procs |-> NoReq]
  /\ tx     = [p \in Procs |-> "none"]
  /\ row    = [p \in Procs |-> NoRow]
  /\ list   = [p \in Procs |-> <<>>]
  /\ idx    = [p \in Procs |-> 0]
  /\ floor  = [p \in Procs |-> 0]
  /\ acked  = [i \in IDs |-> 0]
  /\ last   = NoLast
  /\ raw    = NoMemberRaw
  /\ member = NoMember

\* A call of caller p starts with argument r (fl: the history value floor),
\* its transaction open, and goes on to statement l.
Invoke(p, r, t, fl, l) ==
  /\ pc'    = [pc EXCEPT ![p] = l]
  /\ req'   = [req EXCEPT ![p] = r]
  /\ tx'    = [tx EXCEPT ![p] = t]
  /\ floor' = [floor EXCEPT ![p] = fl]
  /\ last'  = NoLast
  /\ UNCHANGED <<acked, pmVars>>

\* The running call goes on to statement l.
Goto(p, l) ==
  /\ pc'   = [pc EXCEPT ![p] = l]
  /\ last' = NoLast
  /\ UNCHANGED <<req, floor, acked, pmVars>>

\* What last keeps of a call that returned: the call and its outcome; its
\* argument and what it had read too, unless the store or the cache failed
\* (of a Find the argument is kept then too); after: the call that returned in
\* the step before its invocation, if one did.
Summary(p, o, inv, rq, l, fl, t, rs, r, e) ==
  IF e.code \in {"Store", "Cache"}
  THEN [NoLast EXCEPT !.p = p, !.op = o, !.inv = inv, !.tx = t, !.err = e,
                      !.req = IF o = "Find" THEN rq ELSE NoReq,
                      !.after = IF inv THEN last.op ELSE ""]
  ELSE [p |-> p, op |-> o, inv |-> inv, req |-> rq, list |-> l, floor |-> fl,
        tx |-> t, rets |-> rs, ret |-> r, err |-> e,
        after |-> IF inv THEN last.op ELSE ""]

\* The call o(rq) of caller p returns (rs, r, e): rs a list (FindPipelineList),
\* r an entity, e an error.  The deferred Rollback has left its transaction in
\* state t; l is what its query had read.  The frame of the call is gone.
Return(p, o, inv, rq, l, fl, t, rs, r, e) ==
  /\ pc'    = [pc EXCEPT ![p] = "idle"]
  /\ req'   = [req EXCEPT ![p] = NoReq]
  /\ tx'    = [tx EXCEPT ![p] = "none"]
  /\ row'   = [row EXCEPT ![p] = NoRow]
  /\ list'  = [list EXCEPT ![p] = <<>>]
  /\ idx'   = [idx EXCEPT ![p] = 0]
  /\ floor' = [floor EXCEPT ![p] = 0]
  /\ acked' = IF o = "Patch" /\ e = Nil /\ r # NoRow /\ r.UpdatedTs > acked[r.ID]
              THEN [acked EXCEPT ![r.ID] = r.UpdatedTs] ELSE acked
  /\ last'  = Summary(p, o, inv, rq, l, fl, t, rs, r, e)
  /\ UNCHANGED pmVars

\* a return of the running call (not at its invocation)
Exit(p, o, l, rs, r, e) ==
  Return(p, o, FALSE, req[p], l, floor[p], Rollback(tx[p]), rs, r, e)

\* The history variable last describes the previous step only.  Observe forgets
\* it; a step that does not read it waits for Observe, as it leads to the same
\* state from either side of it.  Only a Find by the ID of an entity the call
\* in last returned is read together with last ("a Find by the new ID issued
\* immediately afterwards"), so that Find need not wait.
Quiet == last = NoLast

Follows(find) ==
  /\ find.ID # NilID /\ find.Status = NilStatus
  /\ \/ last.ret.ID = find.ID
     \/ \E i \in DOMAIN last.rets : last.rets[i].ID = find.ID

Observe ==
  /\ ~Quiet
  /\ last' = NoLast
  /\ UNCHANGED <<dbVars, cache, frame, acked, pmVars>>

\* the UPDATE of another caller's open transaction holds the lock of row id
Locked(p, id) == \E q \in Procs \ {p} : pc[q] = "PatchCommit" /\ row[q].ID = id

\* A call is invoked in the step of its first access to the store or the cache:
\* what it does before (BeginTx, building the statement) touches nothing shared.

\* --------------------------------------------------------- CreatePipeline
\* lines 48-58 and 157-193: BeginTx, the INSERT and the scan of the returned row
CreatePipeline(p) ==
  \E create \in PipelineCreate :
    /\ pc[p] = "idle" /\ Quiet
    /\ UNCHANGED <<store, cache>>
    /\ \/ \* BeginTx fails
          /\ UNCHANGED <<nextID, clock>>
          /\ Return(p, "Create", TRUE, create, <<>>, 0, "none", <<>>, NoRow, FormatError(StoreErr))
       \/ \* QueryContext or Scan fails
          /\ UNCHANGED <<nextID, clock>>
          /\ Return(p, "Create", TRUE, create, <<>>, 0, Rollback("open"), <<>>, NoRow, FormatError(StoreErr))
       \/ /\ nextID <= MaxID /\ clock < MaxTs
          /\ nextID' = nextID + 1
          /\ clock' = clock + 1
          /\ row' = [row EXCEPT ![p] = InsertRow(create, nextID, clock + 1)]
          /\ UNCHANGED <<list, idx>>
          /\ Invoke(p, create, "open", 0, "CreateCommit")

\* lines 60-62: Commit
CreateCommit(p) ==
  /\ pc[p] = "CreateCommit" /\ Quiet
  /\ UNCHANGED <<nextID, clock, cache>>
  /\ \/ /\ store' = [store EXCEPT ![row[p].ID] = row[p]]
        /\ tx' = [tx EXCEPT ![p] = "committed"]
        /\ UNCHANGED <<row, list, idx>>
        /\ Goto(p, "CreateCache")
     \/ /\ UNCHANGED store
        /\ Exit(p, "Create", <<>>, <<>>, NoRow, FormatError(StoreErr))

\* lines 64-68: UpsertCache, return
CreateCache(p) ==
  /\ pc[p] = "CreateCache" /\ Quiet
  /\ UNCHANGED dbVars
  /\ \/ /\ cache' = [cache EXCEPT ![CreateCacheEntry(row[p]).ID] = CreateCacheEntry(row[p])]
        /\ Exit(p, "Create", <<>>, <<>>, row[p], Nil)
     \/ /\ UNCHANGED cache
        /\ Exit(p, "Create", <<>>, <<>>, NoRow, CacheErr)

\* ----------------------------------------------------------- FindPipeline
\* lines 97-113: the cache probe of a request with an ID, then BeginTx
FindPipeline(p) ==
  \E find \in PipelineFind :
    LET fl == IF find.ID # NilID THEN acked[find.ID] ELSE 0 IN
    /\ pc[p] = "idle" /\ (Quiet \/ Follows(find))
    /\ UNCHANGED <<dbVars, cache>>
    /\ \/ \* FindCache returns an error
          /\ ProbesCache(find)
          /\ Return(p, "Find", TRUE, find, <<>>, fl, "none", <<>>, NoRow, CacheErr)
       \/ \* has
          /\ ProbesCache(find) /\ cache[find.ID] # NoRow
          /\ Return(p, "Find", TRUE, find, <<>>, fl, "none", <<>>, cache[find.ID], Nil)
       \/ /\ ProbesCache(find) => cache[find.ID] = NoRow
          /\ \/ /\ UNCHANGED <<row, list, idx>>
                /\ Invoke(p, find, "open", fl, "FindQuery")
             \/ Return(p, "Find", TRUE, find, <<>>, fl, "none", <<>>, NoRow, FormatError(StoreErr))

\* lines 115-124 and 195-246: the SELECT, then the check of the row count
FindQuery(p) ==
  /\ pc[p] = "FindQuery" /\ Quiet
  /\ UNCHANGED <<dbVars, cache>>
  /\ \/ \* QueryContext, Scan or rows.Err fails
        Exit(p, "Find", <<>>, <<>>, NoRow, FormatError(StoreErr))
     \/ \E l \in findPipelineList(store, req[p]) :
          IF FindResult(l).upsert
          THEN /\ list' = [list EXCEPT ![p] = l]
               /\ row' = [row EXCEPT ![p] = FindResult(l).ret]
               /\ UNCHANGED <<tx, idx>>
               /\ Goto(p, "FindUpsert")
          ELSE Exit(p, "Find", l, <<>>, FindResult(l).ret, FindResult(l).err)

\* lines 125-128: UpsertCache of the single row, return
FindUpsert(p) ==
  /\ pc[p] = "FindUpsert" /\ Quiet
  /\ UNCHANGED dbVars
  /\ \/ /\ cache' = [cache EXCEPT ![row[p].ID] = row[p]]
        /\ Exit(p, "Find", list[p], <<>>, row[p], Nil)
     \/ /\ UNCHANGED cache
        /\ Exit(p, "Find", list[p], <<>>, NoRow, CacheErr)

\* ------------------------------------------------------- FindPipelineList
\* lines 72-82 and 195-246: BeginTx and the SELECT; an empty list is returned at once
FindPipelineList(p) ==
  \E find \in PipelineFind :
    /\ pc[p] = "idle" /\ Quiet
    /\ UNCHANGED <<dbVars, cache>>
    /\ \/ \* BeginTx fails
          Return(p, "FindList", TRUE, find, <<>>, 0, "none", <<>>, NoRow, FormatError(StoreErr))
       \/ \* QueryContext, Scan or rows.Err fails
          Return(p, "FindList", TRUE, find, <<>>, 0, Rollback("open"), <<>>, NoRow, FormatError(StoreErr))
       \/ \E l \in findPipelineList(ListReads(store, cache), find) :
            IF Len(l) = 0
            THEN Return(p, "FindList", TRUE, find, l, 0, Rollback("open"), l, NoRow, Nil)
            ELSE /\ list' = [list EXCEPT ![p] = l]
                 /\ idx' = [idx EXCEPT ![p] = 1]
                 /\ UNCHANGED row
                 /\ Invoke(p, find, "open", 0, "ListUpsert")

\* lines 84-92: one iteration of the range loop: UpsertCache of list[idx]
ListUpsert(p) ==
  /\ pc[p] = "ListUpsert" /\ Quiet
  /\ UNCHANGED dbVars
  /\ \/ /\ cache' = [cache EXCEPT ![RangeElem(list[p], idx[p]).ID] = RangeElem(list[p], idx[p])]
        /\ IF idx[p] = Len(list[p])
           THEN Exit(p, "FindList", list[p], list[p], NoRow, Nil)
           ELSE /\ idx' = [idx EXCEPT ![p] = @ + 1]
                /\ UNCHANGED <<tx, row, list>>
                /\ Goto(p, "ListUpsert")
     \/ /\ UNCHANGED cache
        /\ Exit(p, "FindList", list[p], <<>>, NoRow, CacheErr)

\* ---------------------------------------------------------- PatchPipeline
\* lines 133-143 and 249-289: BeginTx, the UPDATE and the scan of the returned
\* row.  The UPDATE waits while another transaction holds the lock of the row.
PatchPipeline(p) ==
  \E patch \in PipelinePatch :
    /\ pc[p] = "idle" /\ Quiet
    /\ UNCHANGED <<store, nextID, cache>>
    /\ \/ \* BeginTx fails
          /\ UNCHANGED clock
          /\ Return(p, "Patch", TRUE, patch, <<>>, 0, "none", <<>>, NoRow, FormatError(StoreErr))
       \/ \* QueryContext or Scan fails
          /\ UNCHANGED clock
          /\ Return(p, "Patch", TRUE, patch, <<>>, 0, Rollback("open"), <<>>, NoRow, FormatError(StoreErr))
       \/ \* row.Next() is false: no row has the ID, or Next stopped on an error
          \* of the driver, which row.Err() would tell and the code does not ask
          /\ UNCHANGED clock
          /\ Return(p, "Patch", TRUE, patch, <<>>, 0, Rollback("open"), <<>>, NoRow,
                    FormatError(PatchNoRow(patch)))
       \/ /\ store[patch.ID] # NoRow
          /\ ~Locked(p, patch.ID)
          /\ clock < MaxTs
          /\ clock' = clock + 1
          /\ row' = [row EXCEPT ![p] = UpdateRow(store[patch.ID], patch, clock + 1)]
          /\ list' = [list EXCEPT ![p] = <<store[patch.ID]>>]
          /\ UNCHANGED idx
          /\ Invoke(p, patch, "open", 0, "PatchCommit")

\* lines 145-147: Commit
PatchCommit(p) ==
  /\ pc[p] = "PatchCommit" /\ Quiet
  /\ UNCHANGED <<nextID, clock, cache>>
  /\ \/ /\ store' = [store EXCEPT ![row[p].ID] = row[p]]
        /\ tx' = [tx EXCEPT ![p] = "committed"]
        /\ UNCHANGED <<row, list, idx>>
        /\ Goto(p, "PatchCache")
     \/ /\ UNCHANGED store
        /\ Exit(p, "Patch", list[p], <<>>, NoRow, FormatError(StoreErr))

\* lines 149-153: UpsertCache, return
PatchCache(p) ==
  /\ pc[p] = "PatchCache" /\ Quiet
  /\ UNCHANGED dbVars
  /\ \/ /\ cache' = [cache EXCEPT ![PatchCacheEntry(row[p]).ID] = PatchCacheEntry(row[p])]
        /\ Exit(p, "Patch", list[p], <<>>, row[p], Nil)
     \/ /\ UNCHANGED cache
        /\ Exit(p, "Patch", list[p], <<>>, NoRow, CacheErr)

\* ---------------------------------------------------------- specification
Next ==
  \/ Observe
  \/ \E p \in Procs : CreatePipeline(p)
  \/ \E p \in Procs : CreateCommit(p)
  \/ \E p \in Procs : CreateCache(p)
  \/ \E p \in Procs : FindPipeline(p)
  \/ \E p \in Procs : FindQuery(p)
  \/ \E p \in Procs : FindUpsert(p)
  \/ \E p \in Procs : FindPipelineList(p)
  \/ \E p \in Procs : ListUpsert(p)
  \/ \E p \in Procs : PatchPipeline(p)
  \/ \E p \in Procs : PatchCommit(p)
  \/ \E p \in Procs : PatchCache(p)

Spec == Init /\ [][Next]_vars

\* ------------------------------------------- histories without overlap
\* The callers take turns: a call is invoked only while no other call runs, and
\* no call of the cache (FindCache, UpsertCache) returns an error.
Alone(p) == \A q \in Procs \ {p} : pc[q] = "idle"

CacheWorks == last.err # CacheErr

SeqNext ==
  \/ Observe
  \/ \E p \in Procs : Alone(p) /\ CreatePipeline(p) /\ CacheWorks'
  \/ \E p \in Procs : Alone(p) /\ CreateCommit(p) /\ CacheWorks'
  \/ \E p \in Procs : Alone(p) /\ CreateCache(p) /\ CacheWorks'
  \/ \E p \in Procs : Alone(p) /\ FindPipeline(p) /\ CacheWorks'
  \/ \E p \in Procs : Alone(p) /\ FindQuery(p) /\ CacheWorks'
  \/ \E p \in Procs : Alone(p) /\ FindUpsert(p) /\ CacheWorks'
  \/ \E p \in Procs : Alone(p) /\ FindPipelineList(p) /\ CacheWorks'
  \/ \E p \in Procs : Alone(p) /\ ListUpsert(p) /\ CacheWorks'
  \/ \E p \in Procs : Alone(p) /\ PatchPipeline(p) /\ CacheWorks'
  \/ \E p \in Procs : Alone(p) /\ PatchCommit(p) /\ CacheWorks'
  \/ \E p \in Procs : Alone(p) /\ PatchCache(p) /\ CacheWorks'

SeqSpec == Init /\ [][SeqNext]_vars

\* ------------------------------------------------------- ToProjectMember
\* The conversion alone: some raw record is at hand and no pipeline call runs.
ConvInit ==
  /\ raw \in ProjectMemberRaw
  /\ member = NoMember
  /\ nextID = 1
  /\ clock  = 1
  /\ store  = [i \in IDs |-> NoRow]
  /\ cache  = [i \in IDs |-> NoRow]
  /\ pc     = [p \in Procs |-> "idle"]
  /\ req    = [p \in Procs |-> NoReq]
  /\ tx     = [p \in Procs |-> "none"]
  /\ row    = [p \in Procs |-> NoRow]
  /\ list   = [p \in Procs |-> <<>>]
  /\ idx    = [p \in Procs |-> 0]
  /\ floor  = [p \in Procs |-> 0]
  /\ acked  = [i \in IDs |-> 0]
  /\ last   = NoLast

\* lines 98-117: raw.ToProjectMember()
ToProjectMemberCall ==
  /\ member = NoMember
  /\ member' = ToProjectMember(raw)
  /\ UNCHANGED <<raw, dbVars, cache, frame, acked, last>>

ConvNext == ToProjectMemberCall

ConvSpec == ConvInit /\ [][ConvNext]_vars

\* ------------------------------------------------------------------ claims
FindByID(id) == [ID |-> id, Status |-> NilStatus]

\* the store or the cache failed under the call in last
Failed(l) == l.err.code \in {"Store", "Cache"}

\* the step is a call FindPipeline(find) of caller p
IsFind(p, find) ==
  /\ pc[p] = "idle"
  /\ \/ pc'[p] = "FindQuery" /\ req'[p] = find
     \/ last'.p = p /\ last'.op = "Find" /\ last'.inv /\ last'.req = find

\* the step is a call PatchPipeline(patch) of caller p in which the store did not fail
IsPatch(p, patch) ==
  /\ pc[p] = "idle"
  /\ \/ pc'[p] = "PatchCommit" /\ req'[p] = patch
     \/ last'.p = p /\ last'.op = "Patch" /\ last'.inv /\ last'.req = patch

\* the pipeline state machine: OPEN -> DONE, OPEN -> CANCELED
Terminal == {"DONE", "CANCELED"}
Illegal(from, to) ==
  to # NilStatus /\ to # from /\ ~(from = "OPEN" /\ to \in Terminal)

\* C1: a Find by ID invoked after a Patch of that ID returned never returns a
\* row older than the one that Patch committed.
C1_FindNotOlderThanPatch ==
  (last.op = "Find" /\ last.err = Nil /\ last.req.ID # NilID /\ last.ret # NoRow)
    => last.ret.UpdatedTs >= last.floor

\* C2: when a successful Patch returns, the cache entry of its ID is the row of
\* the Patch that committed last among the Patches of that ID that have
\* returned, whatever the order of their cache writes.
C2_LastCommitWins ==
  (last.op = "Patch" /\ last.err = Nil)
    => cache[last.ret.ID].UpdatedTs = acked[last.ret.ID]

\* C3: a Patch asking for a status change the state machine does not allow
\* issues no UPDATE and returns an InvalidTransitionError.
C3_InvalidTransitionRejected ==
  /\ \A p \in Procs :
       pc[p] \in {"PatchCommit", "PatchCache"}
         => ~Illegal(list[p][1].Status, req[p].Status)
  /\ (last.op = "Patch" /\ ~Failed(last) /\ Len(last.list) = 1
        /\ Illegal(last.list[1].Status, last.req.Status))
       => last.err.code = "InvalidTransition"

\* C4: once the stored status of a pipeline is DONE or CANCELED no step changes
\* it, and a Find by ID answered afterwards returns it.
C4_TerminalIsFinal ==
  /\ [][\A i \in IDs : store[i].Status \in Terminal
                         => store'[i].Status = store[i].Status]_vars
  /\ [](last.op = "Find" /\ last.inv /\ last.err = Nil /\ last.req.ID # NilID
          /\ store[last.req.ID].Status \in Terminal
        => last.ret.Status = store[last.req.ID].Status)

\* C5: a Find by the new ID issued in the step after a successful Create
\* returned opens no transaction and, its cache probe not failing, returns the
\* pipeline that Create returned.
C5_CreateThenFind ==
  [][\A p \in Procs :
       (last.op = "Create" /\ last.err = Nil /\ IsFind(p, FindByID(last.ret.ID)))
         => /\ last'.op = "Find" /\ last'.p = p /\ last'.inv
            /\ last'.tx = "none"
            /\ tx'[p] = "none"
            /\ \/ last'.err = Nil /\ last'.ret = last.ret
               \/ last'.err = CacheErr /\ last'.ret = NoRow]_vars

C5_Witness ==
  /\ last.op = "Find" /\ last.after = "Create" /\ last.inv /\ last.err = Nil
  /\ last.req = FindByID(last.ret.ID)
  /\ last.tx = "none"
  /\ last.ret # NoRow /\ last.ret.Status = "OPEN"
  /\ last.ret.UpdatedTs = last.ret.CreatedTs

\* C6: every successful Create returns a pipeline of status OPEN, and every row
\* that appears in the store appears with status OPEN.
C6_CreatedOpen ==
  /\ [](last.op = "Create" /\ last.err = Nil => last.ret.Status = "OPEN")
  /\ [][\A i \in IDs : (store[i] = NoRow /\ store'[i] # NoRow)
                         => store'[i].Status = "OPEN"]_vars

C6_Witness ==
  last.op = "Create" /\ last.err = Nil /\ store[last.ret.ID] = last.ret

\* C7: a Patch whose ID matches no row returns a NotFound error and no entity,
\* and leaves the store and the cache as they are.
C7_PatchNotFound ==
  [][\A p \in Procs : \A patch \in PipelinePatch :
       (store[patch.ID] = NoRow /\ IsPatch(p, patch))
         => /\ last'.op = "Patch" /\ last'.p = p
            /\ last'.err = NotFound(patch.ID)
            /\ last'.ret = NoRow
            /\ pc'[p] = "idle"
            /\ store' = store /\ cache' = cache]_vars

C7_Witness ==
  /\ last.op = "Patch" /\ last.err.code = "NotFound"
  /\ store[last.req.ID] = NoRow /\ cache[last.req.ID] = NoRow

\* C8: when Create or Patch returns an error its transaction was rolled back:
\* nothing of it is committed.
C8_ErrorMeansRolledBack ==
  (last.op \in {"Create", "Patch"} /\ last.err # Nil) => last.tx # "committed"

\* C9: a Find whose filter matches more than one row returns a Conflict error
\* carrying the number of matching rows and no entity, and never gets to its
\* cache write.
C9_FindConflict ==
  /\ (last.op = "Find" /\ Len(last.list) > 1)
       => /\ last.err = Conflict(Len(last.list))
          /\ Len(last.list) = Cardinality(Matching(store, last.req))
          /\ last.ret = NoRow
  /\ \A p \in Procs : pc[p] = "FindUpsert" => Len(list[p]) <= 1

C9_Witness ==
  /\ last.op = "Find" /\ last.err = Conflict(2)
  /\ last.req = [ID |-> NilID, Status |-> "OPEN"]
  /\ Cardinality({i \in IDs : store[i].Status = "OPEN"}) = 2

\* C10: a Find whose filter matches no row of the store, and in which neither
\* the store nor the cache fails, returns (nil, nil) and writes nothing to the
\* cache, whether it returns from its cache probe or from its SELECT; it is
\* never answered with an entity or a NotFound error.
C10_FindNone ==
  /\ [][\A p \in Procs :
          /\ (pc[p] = "idle" /\ last'.op = "Find" /\ last'.p = p /\ last'.inv
                /\ ~Failed(last') /\ Matching(store, last'.req) = {})
               => (last'.ret = NoRow /\ last'.err = Nil /\ cache' = cache)
          /\ (pc[p] = "FindQuery" /\ last'.op = "Find" /\ last'.p = p
                /\ ~Failed(last') /\ Matching(store, req[p]) = {})
               => (last'.ret = NoRow /\ last'.err = Nil /\ cache' = cache)
          /\ (pc[p] = "FindQuery" /\ Matching(store, req[p]) = {})
               => pc'[p] # "FindUpsert"]_vars
  /\ [](\A p \in Procs : pc[p] = "FindUpsert" => Len(list[p]) >= 1)

\* C11: FindPipelineList never reads the cache: the rows a successful call
\* returns are the rows the store held, matching its filter, at its SELECT,
\* whatever the cache holds; so a call before a Patch returns the rows as stored
\* before it and a call after the Patch returns them as stored after it.
C11_ListFromStore ==
  [][\A p \in Procs :
       /\ (pc[p] = "idle" /\ pc'[p] = "ListUpsert")
            => list'[p] \in Orders(Matching(store, req'[p]))
       /\ (pc[p] = "idle" /\ last'.op = "FindList" /\ last'.p = p /\ last'.err = Nil)
            => last'.rets \in Orders(Matching(store, last'.req))
       /\ (pc[p] = "ListUpsert" /\ pc'[p] = "ListUpsert") => list'[p] = list[p]
       /\ (pc[p] = "ListUpsert" /\ last'.op = "FindList" /\ last'.p = p
             /\ last'.err = Nil)
            => last'.rets = list[p]]_vars

\* a FindPipelineList has read a patched row from the store while the cache
\* still holds that row as it was before the Patch
C11_Witness ==
  \E p \in Procs :
    /\ pc[p] = "ListUpsert" /\ idx[p] = 1
    /\ list[p] \in Orders(Matching(store, req[p]))
    /\ \E i \in DOMAIN list[p] :
         /\ list[p][i].UpdatedTs > list[p][i].CreatedTs
         /\ cache[list[p][i].ID] # NoRow
         /\ cache[list[p][i].ID].UpdatedTs < list[p][i].UpdatedTs

\* C12: the cache never answers a filtered query: a Find that was answered by
\* its cache probe, without a transaction, carried an ID and no status filter.
C12_CacheOnlyForPointLookup ==
  (last.op = "Find" /\ last.inv /\ last.tx = "none" /\ last.err = Nil
     /\ last.ret # NoRow)
    => (last.req.ID # NilID /\ last.req.Status = NilStatus)

\* C13: the cache is never ahead of the store.  In every state a cache entry
\* is a version of its row no newer than the stored one; Create and Patch reach
\* their cache write only with their transaction committed and their row in the
\* store; every cache write writes the committed row of such a call, or a row a
\* Find or FindList read from the committed store.  A caller that crashes takes
\* no further step, which every prefix of a behaviour covers.
C13_CacheNeverAhead ==
  /\ [](\A i \in IDs :
          cache[i] # NoRow
            => /\ store[i] # NoRow
               /\ cache[i].UpdatedTs <= store[i].UpdatedTs
               /\ (cache[i].UpdatedTs = store[i].UpdatedTs => cache[i] = store[i]))
  /\ [](\A p \in Procs :
          pc[p] \in {"CreateCommit", "PatchCommit"} => cache[row[p].ID] # row[p])
  /\ [][\A p \in Procs :
          /\ (pc'[p] \in {"CreateCache", "PatchCache"} /\ pc'[p] # pc[p])
               => (tx'[p] = "committed" /\ store'[row'[p].ID] = row'[p])
          /\ (pc'[p] = "FindUpsert" /\ pc'[p] # pc[p])
               => row'[p] = store[row'[p].ID]
          /\ (pc'[p] = "ListUpsert" /\ pc'[p] # pc[p])
               => \A k \in DOMAIN list'[p] : list'[p][k] = store[list'[p][k].ID]]_vars
  /\ [][\A i \in IDs :
          cache'[i] # cache[i]
            => \E p \in Procs :
                 \/ /\ pc[p] \in {"CreateCache", "PatchCache"}
                    /\ tx[p] = "committed" /\ cache'[i] = row[p]
                 \/ pc[p] = "FindUpsert" /\ cache'[i] = row[p]
                 \/ pc[p] = "ListUpsert" /\ cache'[i] = list[p][idx[p]]]_vars

\* a Patch has committed and not yet written the cache, which holds the row as
\* it was before: the cache is behind the store
C13_Witness ==
  \E p \in Procs :
    /\ pc[p] = "PatchCache" /\ tx[p] = "committed"
    /\ store[row[p].ID] = row[p]
    /\ cache[row[p].ID] # NoRow
    /\ cache[row[p].ID].UpdatedTs < store[row[p].ID].UpdatedTs

\* C14: no call returns with its transaction open: on every exit path the
\* transaction it began, if it began one, is committed or rolled back, and an
\* idle caller holds no transaction.
C14_TxReleased ==
  /\ last.tx \in {"none", "committed", "rolledback"}
  /\ (last.tx = "none" /\ last.op # "")
       => (last.inv /\ (last.err \in {StoreErr, CacheErr} \/ last.op = "Find"))
  /\ \A p \in Procs : pc[p] = "idle" => tx[p] = "none"
  /\ \A p \in Procs : pc[p] # "idle" => tx[p] \in {"open", "committed"}

\* a call has left through an error exit after its statement ran, its
\* transaction rolled back by the deferred Rollback
C14_Witness ==
  /\ last.op \in {"Find", "Patch"} /\ last.err.code \in {"Conflict", "NotFound"}
  /\ last.tx = "rolledback"

\* list l holds, once each, exactly the rows of table t that satisfy every
\* field present in filter f
ExactlyMatching(l, t, f) ==
  /\ \A k \in DOMAIN l :
       /\ l[k] # NoRow /\ l[k] = t[l[k].ID]
       /\ (f.ID # NilID => l[k].ID = f.ID)
       /\ (f.Status # NilStatus => l[k].Status = f.Status)
  /\ \A i \in IDs :
       (t[i] # NoRow /\ (f.ID = NilID \/ f.ID = i)
          /\ (f.Status = NilStatus \/ f.Status = t[i].Status))
         => \E k \in DOMAIN l : l[k] = t[i]
  /\ \A j, k \in DOMAIN l : l[j] = l[k] => j = k
  /\ (f.ID = NilID /\ f.Status = NilStatus)
       => Len(l) = Cardinality({i \in IDs : t[i] # NoRow})

\* C15: the list a successful FindPipelineList returns holds exactly the rows
\* that, when its SELECT ran, were stored and satisfied every filter field of
\* the request (ID, status): no other row, no matching row missing, and every
\* row of the store when the request has no filter field.
C15_ListExactlyMatching ==
  [][\A p \in Procs :
       /\ (pc[p] = "idle" /\ pc'[p] = "ListUpsert")
            => ExactlyMatching(list'[p], store, req'[p])
       /\ (pc[p] = "idle" /\ last'.op = "FindList" /\ last'.p = p /\ last'.err = Nil)
            => ExactlyMatching(last'.rets, store, last'.req)
       /\ (pc[p] = "ListUpsert" /\ last'.op = "FindList" /\ last'.p = p
             /\ last'.err = Nil)
            => (last'.rets = list[p] /\ last'.req = req[p])]_vars

\* a FindPipelineList with both filter fields has returned the one row that
\* has the ID and the status, out of a table that holds another row too
C15_Witness ==
  /\ last.op = "FindList" /\ last.err = Nil
  /\ last.req.ID # NilID /\ last.req.Status = "OPEN"
  /\ last.rets = <<store[last.req.ID]>>
  /\ \E i \in IDs : i # last.req.ID /\ store[i] # NoRow /\ store[i].Status = "DONE"

\* C16: a Patch changes the store in its commit only, and there only the row of
\* its ID: id, creator, creation time and name stay, updater_id becomes the
\* requester, status becomes the requested status or stays when the request
\* carries none (updated_ts may change); every other row stays; the entity a
\* successful Patch returns is the row it committed.
C16_PatchFrame ==
  [][\A p \in Procs :
       /\ (pc[p] = "PatchCommit" /\ pc'[p] = "PatchCache")
            => LET old == store[req[p].ID]
                   new == store'[req[p].ID]
               IN  /\ old # NoRow /\ new # NoRow
                   /\ new.ID = old.ID /\ new.CreatorID = old.CreatorID
                   /\ new.CreatedTs = old.CreatedTs /\ new.Name = old.Name
                   /\ new.UpdaterID = req[p].UpdaterID
                   /\ new.Status = IF req[p].Status # NilStatus
                                   THEN req[p].Status ELSE old.Status
                   /\ \A i \in IDs \ {req[p].ID} : store'[i] = store[i]
                   /\ row'[p] = new
       /\ (\/ pc[p] = "idle" /\ pc'[p] = "PatchCommit"
           \/ pc[p] = "PatchCache" /\ pc'[p] = "idle"
           \/ pc[p] = "PatchCommit" /\ pc'[p] = "idle")
            => store' = store
       /\ (pc[p] = "PatchCache" /\ last'.op = "Patch" /\ last'.p = p
             /\ last'.err = Nil)
            => last'.ret = row[p]]_vars

\* a Patch without a status has returned: the stored row has the new updater
\* and the status it had, and the other row of the table is as it was created
C16_Witness ==
  /\ last.op = "Patch" /\ last.err = Nil /\ last.req.Status = NilStatus
  /\ store[last.req.ID] = last.ret
  /\ last.ret.UpdaterID = last.req.UpdaterID
  /\ last.list[1].UpdaterID # last.req.UpdaterID
  /\ last.ret.Status = last.list[1].Status
  /\ \E i \in IDs \ {last.req.ID} :
       store[i] # NoRow /\ store[i].UpdatedTs = store[i].CreatedTs

\* a Find by the ID of an entity that the FindPipelineList that returned in
\* the previous step returned, whether its probe hits or misses, returns from
\* its cache probe: it opens no transaction and runs no SELECT
WarmAfterList ==
  [][\A p \in Procs : \A k \in DOMAIN last.rets :
       (last.op = "FindList" /\ last.err = Nil
          /\ IsFind(p, FindByID(last.rets[k].ID)))
         => /\ last'.op = "Find" /\ last'.p = p /\ last'.inv
            /\ last'.tx = "none"
            /\ tx'[p] = "none" /\ pc'[p] = "idle"]_vars

\* C17 as stated: when a successful FindPipelineList returns, the cache holds
\* every returned entity under its ID with the returned value, and a Find by
\* one of those IDs issued in the next step opens no transaction.
C17_ListWarmsCache ==
  /\ [](last.op = "FindList" /\ last.err = Nil
          => \A k \in DOMAIN last.rets : cache[last.rets[k].ID] = last.rets[k])
  /\ WarmAfterList

\* C17 as amended: FindPipelineList writes every entity it returns to the cache
\* under its ID with the returned value, one per iteration in the order of the
\* list, and writes no other entry; when it returns the cache holds an entry
\* under each of those IDs (the returned value, unless another call has written
\* that ID since); a Find by one of those IDs issued in the next step opens no
\* transaction.
C17_ListWritesReturned ==
  /\ [][\A p \in Procs :
          /\ (pc[p] = "idle" /\ pc'[p] = "ListUpsert")
               => (idx'[p] = 1 /\ cache' = cache)
          /\ (pc[p] = "ListUpsert" /\ pc'[p] = "ListUpsert" /\ idx'[p] # idx[p])
               => /\ idx'[p] = idx[p] + 1 /\ idx[p] < Len(list[p])
                  /\ cache'[list[p][idx[p]].ID] = list[p][idx[p]]
                  /\ \A i \in IDs \ {list[p][idx[p]].ID} : cache'[i] = cache[i]
          /\ (pc[p] = "ListUpsert" /\ last'.op = "FindList" /\ last'.p = p
                /\ last'.err = Nil)
               => /\ idx[p] = Len(list[p]) /\ last'.rets = list[p]
                  /\ cache'[list[p][idx[p]].ID] = list[p][idx[p]]
                  /\ \A i \in IDs \ {list[p][idx[p]].ID} : cache'[i] = cache[i]
          /\ (pc[p] = "ListUpsert" /\ last'.op = "FindList" /\ last'.p = p
                /\ last'.err # Nil)
               => cache' = cache]_vars
  /\ [](last.op = "FindList" /\ last.err = Nil
          => \A k \in DOMAIN last.rets :
               cache[last.rets[k].ID].ID = last.rets[k].ID)
  /\ WarmAfterList

\* a Find by the ID of one of the two entities a FindPipelineList has just
\* returned was answered with that entity and without a transaction
C17_Witness ==
  /\ last.op = "Find" /\ last.after = "FindList" /\ last.err = Nil
  /\ last.tx = "none" /\ last.ret # NoRow
  /\ last.ret.ID = 2 /\ cache[1] # NoRow
  /\ last.req = FindByID(last.ret.ID)

\* C18: in a history without overlap and without cache failures, whenever no
\* call is running every cache entry equals the row stored under its ID: the
\* cache holds no entry for an ID the store lacks and none that differs from
\* its row.
C18_SeqCacheEqualsStore ==
  (\A p \in Procs : pc[p] = "idle")
    => \A i \in IDs : cache[i] # NoRow => cache[i] = store[i]

\* a Patch has returned after a Create: both rows are cached as stored
C18_Witness ==
  /\ \A p \in Procs : pc[p] = "idle"
  /\ last.op = "Patch" /\ last.err = Nil
  /\ last.ret.UpdatedTs > last.ret.CreatedTs
  /\ \A i \in 1..2 : cache[i] # NoRow /\ cache[i] = store[i]

\* C19: the pipeline a Find returns satisfies every filter field of the
\* request (its ID, its status), and a Find returns no entity when no stored
\* row satisfies them all; stated for histories without overlap, where the
\* store at the return is the store the call ran against.
C19_FindSatisfiesFilter ==
  /\ (last.op = "Find" /\ last.err = Nil /\ last.ret # NoRow)
       => /\ (last.req.ID # NilID => last.ret.ID = last.req.ID)
          /\ (last.req.Status # NilStatus => last.ret.Status = last.req.Status)
  /\ (last.op = "Find" /\ last.err = Nil
        /\ ~\E i \in IDs : /\ store[i] # NoRow
                            /\ (last.req.ID # NilID => i = last.req.ID)
                            /\ (last.req.Status # NilStatus
                                  => store[i].Status = last.req.Status))
       => last.ret = NoRow

\* C20: ToProjectMember copies every field ProjectMemberRaw and ProjectMember
\* share: ID, CreatorID, CreatedTs, UpdaterID, UpdatedTs, ProjectID, Role,
\* PrincipalID, RoleProvider and Payload of the result equal the fields of the
\* same name of the raw record.
C20_ToProjectMemberCopies ==
  member # NoMember
    => /\ member.ID = raw.ID
       /\ member.CreatorID = raw.CreatorID
       /\ member.CreatedTs = raw.CreatedTs
       /\ member.UpdaterID = raw.UpdaterID
       /\ member.UpdatedTs = raw.UpdatedTs
       /\ member.ProjectID = raw.ProjectID
       /\ member.Role = raw.Role
       /\ member.PrincipalID = raw.PrincipalID
       /\ member.RoleProvider = raw.RoleProvider
       /\ member.Payload = raw.Payload

====
